---------------------------- MODULE Spec2Model ----------------------------
(***************************************************************************)
(* A model of the HTTP/1.1 server of codecrafters-http-server-rust.        *)
(*                                                                         *)
(* Byte strings are sequences of one-character strings; a byte that is no  *)
(* printable ASCII character is written as a name in angle brackets        *)
(* ("<ff>").  An Option is a sequence of length 0 (None) or 1 (Some).      *)
(*                                                                         *)
(* Four specifications share the module:                                   *)
(*   Spec        one connection slot, requests handled one after another   *)
(*               by src/lib.rs handle_connection (parser, router, files)   *)
(*   ServerSpec  the accept loop of src/main.rs with several connections   *)
(*               and the runtime's worker threads (FairServerSpec adds the *)
(*               scheduler's fairness)                                     *)
(*   HeaderSpec  the header map of src/structs.rs                          *)
(*   SerSpec     the two response serializers of the repository            *)
(***************************************************************************)
EXTENDS Integers, Sequences, FiniteSets, TLC

----------------------------------------------------------------------------
(* Bounds of the model *)

\* worker threads of the runtime (the machine's core count)
NumWorkers == 2
\* connection slots of ServerSpec
MaxConns == 3
\* cap on the header list of a reader that never leaves its loop
MaxHeaderLines == 3

----------------------------------------------------------------------------
(* String literals of the program *)

GET == <<"G","E","T">>
POST == <<"P","O","S","T">>
CRLF == <<"\r","\n">>
SEP == <<":"," ">>
GZIP == <<"g","z","i","p">>
NONE == <<"N","o","n","e">>
HTTP11 == <<"H","T","T","P","/","1",".","1">>
ROOT == <<"/">>
ECHO == <<"/","e","c","h","o","/">>
USER_AGENT_PATH == <<"/","u","s","e","r","-","a","g","e","n","t">>
FILES == <<"/","f","i","l","e","s","/">>
CONTENT_TYPE == <<"c","o","n","t","e","n","t","-","t","y","p","e">>
CONTENT_LENGTH == <<"c","o","n","t","e","n","t","-","l","e","n","g","t","h">>
CONTENT_ENCODING == <<"c","o","n","t","e","n","t","-","e","n","c","o","d","i","n","g">>
ACCEPT_ENCODING == <<"a","c","c","e","p","t","-","e","n","c","o","d","i","n","g">>
USER_AGENT == <<"u","s","e","r","-","a","g","e","n","t">>
TEXT_PLAIN == <<"t","e","x","t","/","p","l","a","i","n">>
OCTET_STREAM == <<"a","p","p","l","i","c","a","t","i","o","n","/","o","c","t","e","t","-","s","t","r","e","a","m">>

----------------------------------------------------------------------------
(* Library functions of the Rust standard library, as the code uses them *)

Some(x) == <<x>>
None == <<>>

Whitespace == {" ", "\t", "\r", "\n"}

Digits == <<"0","1","2","3","4","5","6","7","8","9">>

DigitValue(ch) == (CHOOSE i \in 1..10 : Digits[i] = ch) - 1

IsDigit(ch) == \E i \in 1..10 : Digits[i] = ch

UpperCase == <<"A","B","C","D","E","F","G","H","I","J","K","L","M",
               "N","O","P","Q","R","S","T","U","V","W","X","Y","Z">>

LowerCase == <<"a","b","c","d","e","f","g","h","i","j","k","l","m",
               "n","o","p","q","r","s","t","u","v","w","x","y","z">>

\* char::to_lowercase on ASCII
lower(ch) ==
    IF \E i \in 1..26 : UpperCase[i] = ch
    THEN LowerCase[CHOOSE i \in 1..26 : UpperCase[i] = ch]
    ELSE ch

\* str::to_lowercase
to_lowercase(s) == [i \in 1..Len(s) |-> lower(s[i])]

\* str::starts_with
starts_with(s, p) == Len(s) >= Len(p) /\ SubSeq(s, 1, Len(p)) = p

\* the second half of str::split_at(n)
split_at_1(s, n) == SubSeq(s, n + 1, Len(s))

\* the positions at which pat occurs in s
Occurrences(s, pat) ==
    {i \in 1..(Len(s) - Len(pat) + 1) : SubSeq(s, i, i + Len(pat) - 1) = pat}

\* str::contains
contains(s, pat) == Occurrences(s, pat) # {}

Min(S) == CHOOSE x \in S : \A y \in S : x <= y

\* str::split_once: None, or Some of the parts around the first occurrence
split_once(s, pat) ==
    IF Occurrences(s, pat) = {} THEN None
    ELSE LET i == Min(Occurrences(s, pat))
         IN  Some(<<SubSeq(s, 1, i - 1), SubSeq(s, i + Len(pat), Len(s))>>)

RECURSIVE trim_end(_)
\* str::trim_end
trim_end(s) ==
    IF s # <<>> /\ s[Len(s)] \in Whitespace
    THEN trim_end(SubSeq(s, 1, Len(s) - 1))
    ELSE s

RECURSIVE SplitWs(_, _, _)
\* tokens of s from position i on, cur being the token under construction
SplitWs(s, i, cur) ==
    IF i > Len(s) THEN (IF cur = <<>> THEN <<>> ELSE <<cur>>)
    ELSE IF s[i] \in Whitespace
         THEN (IF cur = <<>> THEN <<>> ELSE <<cur>>) \o SplitWs(s, i + 1, <<>>)
         ELSE SplitWs(s, i + 1, Append(cur, s[i]))

\* str::split_whitespace, collected
split_whitespace(s) == SplitWs(s, 1, <<>>)

RECURSIVE SplitInclusive(_, _, _)
\* str::split_inclusive('\n'): the pieces of s, each keeping its "\n"
SplitInclusive(s, i, cur) ==
    IF i > Len(s) THEN (IF cur = <<>> THEN <<>> ELSE <<cur>>)
    ELSE IF s[i] = "\n"
         THEN <<Append(cur, s[i])>> \o SplitInclusive(s, i + 1, <<>>)
         ELSE SplitInclusive(s, i + 1, Append(cur, s[i]))

\* what str::lines does to one piece: strip one "\n", then one "\r"
StripLineEnding(piece) ==
    IF piece # <<>> /\ piece[Len(piece)] = "\n"
    THEN LET l == SubSeq(piece, 1, Len(piece) - 1)
         IN  IF l # <<>> /\ l[Len(l)] = "\r" THEN SubSeq(l, 1, Len(l) - 1) ELSE l
    ELSE piece

\* str::lines, collected
lines(s) ==
    LET ps == SplitInclusive(s, 1, <<>>)
    IN  [i \in 1..Len(ps) |-> StripLineEnding(ps[i])]

RECURSIVE join(_, _)
\* [String]::join
join(ls, sep) ==
    IF ls = <<>> THEN <<>>
    ELSE IF Len(ls) = 1 THEN ls[1]
    ELSE ls[1] \o sep \o join(Tail(ls), sep)

RECURSIVE from_utf8_lossy(_)
\* String::from_utf8_lossy: an invalid byte becomes U+FFFD (three bytes)
from_utf8_lossy(bs) ==
    IF bs = <<>> THEN <<>>
    ELSE (IF bs[1] = "<ff>" THEN <<"<ef>","<bf>","<bd>">> ELSE <<bs[1]>>)
         \o from_utf8_lossy(Tail(bs))

RECURSIVE to_string(_)
\* usize::to_string
to_string(n) ==
    IF n < 10 THEN <<Digits[n + 1]>>
    ELSE to_string(n \div 10) \o <<Digits[(n % 10) + 1]>>

RECURSIVE DecimalValue(_)
DecimalValue(s) ==
    IF s = <<>> THEN 0
    ELSE 10 * DecimalValue(SubSeq(s, 1, Len(s) - 1)) + DigitValue(s[Len(s)])

\* str::parse::<usize>().ok(): an optional "+" and at least one digit
parse_usize(s) ==
    LET d == IF s # <<>> /\ s[1] = "+" THEN Tail(s) ELSE s
    IN  IF d # <<>> /\ \A i \in 1..Len(d) : IsDigit(d[i])
        THEN Some(DecimalValue(d))
        ELSE None

\* BufRead::read_line on the unread bytes: through the first "\n", or all
read_line(rest) ==
    IF Occurrences(rest, <<"\n">>) = {} THEN rest
    ELSE SubSeq(rest, 1, Min(Occurrences(rest, <<"\n">>)))

----------------------------------------------------------------------------
(* src/structs.rs: Method, Headers, Body, Status, Response *)

\* Method::from_str: "Get", "Post", or "Err"
Method_from_str(s) ==
    IF s = GET THEN "Get" ELSE IF s = POST THEN "Post" ELSE "Err"

\* HashMap::new
EmptyMap == <<>>

\* HashMap::insert
insert(h, key, value) ==
    [k \in (DOMAIN h) \cup {key} |-> IF k = key THEN value ELSE h[k]]

\* Headers::set: inserts under the key as given
Headers_set(h, key, value) == insert(h, key, value)

\* Headers::get: looks the key up as given
Headers_get(h, key) == IF key \in DOMAIN h THEN Some(h[key]) ELSE None

RECURSIVE FromLines(_, _)
\* the loop of Headers::from over the remaining lines, h being the map so far
FromLines(ls, h) ==
    IF ls = <<>> \/ ls[1] = <<>> THEN [ok |-> TRUE, map |-> h]
    ELSE LET parts == split_once(ls[1], SEP)
         IN  IF parts = None
             THEN [ok |-> FALSE, map |-> h]
             ELSE FromLines(Tail(ls),
                            insert(h, to_lowercase(parts[1][1]), parts[1][2]))

\* Headers::from: Ok(map), or Err at the first line without ": "
Headers_from(ls) == FromLines(ls, EmptyMap)

set_content_type(h, content_type) == Headers_set(h, CONTENT_TYPE, content_type)

set_content_length(h, length) == Headers_set(h, CONTENT_LENGTH, to_string(length))

set_content_encoding(h, encoding) == Headers_set(h, CONTENT_ENCODING, encoding)

get_content_length(h) ==
    LET v == Headers_get(h, CONTENT_LENGTH)
    IN  IF v = None THEN None ELSE parse_usize(v[1])

get_accept_encoding(h) == Headers_get(h, ACCEPT_ENCODING)

get_user_agent(h) == Headers_get(h, USER_AGENT)

\* Body::from_str
Body_from_str(s) == s

\* Body::from_lines
Body_from_lines(ls) == join(ls, CRLF)

\* impl Display for Body
Body_to_string(b) == from_utf8_lossy(b)

\* impl Display for Status
StatusText(status) ==
    CASE status = "Ok" -> <<"2","0","0"," ","O","K">>
      [] status = "NotFound" -> <<"4","0","4"," ","N","o","t"," ","F","o","u","n","d">>
      [] status = "Created" -> <<"2","0","1"," ","C","r","e","a","t","e","d">>
      [] status = "InternalServerError" ->
            <<"5","0","0"," ","I","n","t","e","r","n","a","l"," ",
              "S","e","r","v","e","r"," ","E","r","r","o","r">>

\* Response::new
Response_new ==
    [version |-> HTTP11, status |-> "Ok", headers |-> EmptyMap, body |-> <<>>]

set_status(r, status) == [r EXCEPT !.status = status]

set_plain_text_body(r, body) ==
    [r EXCEPT !.headers = set_content_length(
                              set_content_type(r.headers, TEXT_PLAIN), Len(body)),
              !.body = body]

set_file_body(r, body) ==
    [r EXCEPT !.headers = set_content_length(
                              set_content_type(r.headers, OCTET_STREAM), Len(body)),
              !.body = body]

\* The gzip member flate2's GzEncoder writes: a 10-byte header, the DEFLATE
\* stream, and an 8-byte trailer (CRC-32, input size).  The DEFLATE stream is
\* kept abstract as a framed copy of the input: the output differs from the
\* input in content and in length, and determines the input.
GzHeader == <<"<1f>","<8b>","<08>","<00>","<00>","<00>","<00>","<00>","<00>","<ff>">>

GzTrailer(data) ==
    <<"<crc>","<crc>","<crc>","<crc>">> \o to_string(Len(data)) \o <<"<00>","<00>","<00>">>

Gzip(data) == GzHeader \o <<"<deflate>">> \o data \o <<"<eob>">> \o GzTrailer(data)

\* mutant: only the exact value "gzip" qualifies
is_gzip_exact(headers) ==
    LET e == get_accept_encoding(headers)
    IN  IF e = None THEN FALSE ELSE e[1] = GZIP

\* Request::is_gzip_encoding
is_gzip_encoding(headers) ==
    LET e == get_accept_encoding(headers)
    IN  IF e = None THEN FALSE ELSE contains(e[1], GZIP)

\* mutant: the length of the uncompressed body is kept
apply_compression_stale_length(r, headers) ==
    IF ~is_gzip_encoding(headers) THEN r
    ELSE [r EXCEPT !.headers = set_content_encoding(r.headers, GZIP),
                   !.body = Gzip(r.body)]

\* Response::apply_compression, reading the request's headers
apply_compression(r, headers) ==
    IF ~is_gzip_encoding(headers) THEN r
    ELSE LET h1 == set_content_encoding(r.headers, GZIP)
             b == Gzip(r.body)
         IN  [r EXCEPT !.headers = set_content_length(h1, Len(b)), !.body = b]

\* the orders in which a HashMap's entries may be iterated
Orders(S) == {o \in [1..Cardinality(S) -> S] : \A i, j \in DOMAIN o : i # j => o[i] # o[j]}

RECURSIVE HeaderBytes(_, _)
\* the loop of to_bytes over the headers in iteration order
HeaderBytes(h, order) ==
    IF order = <<>> THEN <<>>
    ELSE order[1] \o SEP \o h[order[1]] \o CRLF \o HeaderBytes(h, Tail(order))

\* the bytes before the body: status line, headers, blank line
HeadBytes(r, order) ==
    r.version \o <<" ">> \o StatusText(r.status) \o CRLF
      \o HeaderBytes(r.headers, order) \o CRLF

\* Response::to_bytes
to_bytes(r, order) == HeadBytes(r, order) \o r.body

RECURSIVE DisplayLines(_)
\* main.rs: body.lines().for_each(push line, push "\r\n")
DisplayLines(ls) ==
    IF ls = <<>> THEN <<>> ELSE ls[1] \o CRLF \o DisplayLines(Tail(ls))

\* main.rs: impl Display for Response
Response_fmt(r, order) == HeadBytes(r, order) \o DisplayLines(lines(r.body))

----------------------------------------------------------------------------
(* The state *)

VARIABLES
    conns,      \* per connection slot: the task's position and locals
    queue,      \* the runtime's queue of spawned tasks not yet polled
    fs,         \* the serving directory: file name -> contents
    uploaded,   \* history: file name -> body of the last successful POST to it
    hdrs,       \* HeaderSpec: the Headers value under test
    lastSet,    \* HeaderSpec: the arguments of the last set / parsed line
    sresp,      \* SerSpec: the Response to serialize
    sout        \* SerSpec: the serializer used and its output

vars == <<conns, queue, fs, uploaded, hdrs, lastSet, sresp, sout>>

ConnIds == 1..MaxConns

\* a slot with no connection
FreeConn ==
    [pc |-> "free", data |-> <<>>, eof |-> FALSE, pos |-> 0,
     method |-> "", path |-> <<>>, version |-> <<>>,
     header_lines |-> <<>>, headers |-> EmptyMap,
     raw |-> <<>>, body |-> <<>>,
     response |-> Response_new, written |-> <<>>, outcome |-> "none"]

\* the positions at which a task occupies a worker thread
Running == {"request_line", "headers", "body", "route", "write"}

Busy == Cardinality({c \in ConnIds : conns[c].pc \in Running})

\* the bytes of the stream not yet consumed by the BufReader
Rest(k) == SubSeq(k.data, k.pos + 1, Len(k.data))

\* read_line returns: a line end has arrived, or the stream is at its end
LineReady(k) == contains(Rest(k), <<"\n">>) \/ k.eof

\* the task ends with Err(..) or unwinds with a panic; nothing was written
Fail(k, how) == [k EXCEPT !.pc = "done", !.outcome = how]

----------------------------------------------------------------------------
(* src/main.rs main: the accept loop and the runtime *)

\* listener.incoming() yields a stream; tokio::spawn queues its task
Accept(c, reqs) ==
    /\ conns[c].pc = "free"
    /\ \E r \in reqs :
         conns' = [conns EXCEPT ![c] =
                     [FreeConn EXCEPT !.pc = "queued", !.data = r.data, !.eof = r.eof]]
    /\ queue' = Append(queue, c)
    /\ UNCHANGED <<fs, uploaded, hdrs, lastSet, sresp, sout>>

\* a worker thread that runs no task polls the task at the head of the queue
Start(c) ==
    /\ queue # <<>> /\ Head(queue) = c
    /\ Busy < NumWorkers
    /\ conns' = [conns EXCEPT ![c].pc = "request_line"]
    /\ queue' = Tail(queue)
    /\ UNCHANGED <<fs, uploaded, hdrs, lastSet, sresp, sout>>

\* the task is over (Ok, Err logged, or panic caught); the stream is dropped
Drop(c) ==
    /\ conns[c].pc = "done"
    /\ conns' = [conns EXCEPT ![c] = FreeConn]
    /\ UNCHANGED <<queue, fs, uploaded, hdrs, lastSet, sresp, sout>>

----------------------------------------------------------------------------
(* src/lib.rs handle_connection *)

\* lines 21-27: the request line (first_line and parts are bound once)
RequestLine(c) ==
    LET k == conns[c]
    IN  /\ k.pc = "request_line"
        /\ LineReady(k)
        /\ \E first_line \in {read_line(Rest(k))} :
           \E parts \in {split_whitespace(first_line)} :
             conns' = [conns EXCEPT ![c] =
                IF Len(parts) = 0 THEN Fail(k, "panic")
                ELSE IF Method_from_str(parts[1]) = "Err" THEN Fail(k, "error")
                ELSE IF Len(parts) < 3 THEN Fail(k, "panic")
                ELSE [k EXCEPT !.pc = "headers",
                               !.pos = k.pos + Len(first_line),
                               !.method = Method_from_str(parts[1]),
                               !.path = parts[2],
                               !.version = parts[3]]]
        /\ UNCHANGED <<queue, fs, uploaded, hdrs, lastSet, sresp, sout>>

\* lines 29-38: one iteration of the header loop; on break, Headers::from
ReadHeaderLine(c) ==
    LET k == conns[c]
        line == read_line(Rest(k))
        parsed == Headers_from(k.header_lines)
    IN  /\ k.pc = "headers"
        /\ LineReady(k)
        /\ line = CRLF \/ Len(k.header_lines) < MaxHeaderLines
        /\ conns' = [conns EXCEPT ![c] =
              IF line = CRLF
              THEN IF parsed.ok
                   THEN [k EXCEPT !.pc = "body", !.pos = k.pos + Len(line),
                                  !.headers = parsed.map]
                   ELSE Fail(k, "error")
              ELSE [k EXCEPT !.pos = k.pos + Len(line),
                             !.header_lines = Append(k.header_lines, trim_end(line))]]
        /\ UNCHANGED <<queue, fs, uploaded, hdrs, lastSet, sresp, sout>>

\* lines 40-52: the body, read by byte count and rebuilt from its lines
ReadBody(c) ==
    LET k == conns[c]
        length == get_content_length(k.headers)
        n == IF length = None THEN 0 ELSE length[1]
        bytes == SubSeq(Rest(k), 1, n)
    IN  /\ k.pc = "body"
        /\ n <= Len(Rest(k)) \/ k.eof
        /\ conns' = [conns EXCEPT ![c] =
              IF n = 0 THEN [k EXCEPT !.pc = "route", !.body = Body_from_lines(<<>>)]
              ELSE IF n > Len(Rest(k)) THEN Fail(k, "error")
              ELSE [k EXCEPT !.pc = "route", !.pos = k.pos + n, !.raw = bytes,
                             !.body = Body_from_lines(lines(from_utf8_lossy(bytes)))]]
        /\ UNCHANGED <<queue, fs, uploaded, hdrs, lastSet, sresp, sout>>

\* the arm of the match on request.path that is taken (lines 58-83)
dispatch(path) ==
    IF path = ROOT THEN "root"
    ELSE IF starts_with(path, ECHO) THEN "echo"
    ELSE IF path = USER_AGENT_PATH THEN "user_agent"
    ELSE IF starts_with(path, FILES) THEN "files"
    ELSE "not_found"

\* mutant: the prefix is cut one byte short
echo_text_short(path) == split_at_1(path, 5)

\* line 63: the text after "/echo/"
echo_text(path) == split_at_1(path, 6)

\* line 91: the file the request names under the serving directory
file_name(path) == split_at_1(path, 7)

\* lines 90-123: handle_files; written tells whether fs::write succeeds
handle_files(k, response, files, written) ==
    IF k.method = "Get"
    THEN IF file_name(k.path) \in DOMAIN files
         THEN set_file_body(response, Body_from_str(files[file_name(k.path)]))
         ELSE set_status(response, "NotFound")
    ELSE IF written THEN set_status(response, "Created")
         ELSE set_status(response, "InternalServerError")

\* lines 56-83: the response the router builds
route(k, files, written) ==
    LET arm == dispatch(k.path)
        response == Response_new
    IN  CASE arm = "root" -> set_status(response, "Ok")
          [] arm = "echo" ->
                apply_compression(
                    set_plain_text_body(response, Body_from_str(echo_text(k.path))),
                    k.headers)
          [] arm = "user_agent" ->
                LET user_agent == get_user_agent(k.headers)
                IN  set_plain_text_body(response,
                        Body_from_str(IF user_agent = None THEN NONE ELSE user_agent[1]))
          [] arm = "files" -> handle_files(k, response, files, written)
          [] OTHER -> set_status(response, "NotFound")

\* whether the request reaches fs::write
IsUpload(k) == dispatch(k.path) = "files" /\ k.method = "Post"

\* lines 56-83 with the file system's side of handle_files
Route(c) ==
    LET k == conns[c]
        name == file_name(k.path)
    IN  /\ k.pc = "route"
        /\ \E written \in (IF IsUpload(k) THEN BOOLEAN ELSE {TRUE}) :
             /\ conns' = [conns EXCEPT ![c] =
                    [k EXCEPT !.pc = "write", !.response = route(k, fs, written)]]
             /\ fs' = IF IsUpload(k) /\ written
                      THEN insert(fs, name, Body_to_string(k.body))
                      ELSE fs
             /\ uploaded' =
                    IF ~IsUpload(k) THEN uploaded
                    ELSE IF written THEN insert(uploaded, name, k.raw)
                    ELSE [f \in (DOMAIN uploaded) \ {name} |-> uploaded[f]]
        /\ UNCHANGED <<queue, hdrs, lastSet, sresp, sout>>

\* line 85: stream.write_all(&response.to_bytes())
WriteResponse(c) ==
    LET k == conns[c]
    IN  /\ k.pc = "write"
        /\ \E order \in Orders(DOMAIN k.response.headers) :
             conns' = [conns EXCEPT ![c] =
                 [k EXCEPT !.pc = "done", !.outcome = "ok",
                           !.written = to_bytes(k.response, order)]]
        /\ UNCHANGED <<queue, fs, uploaded, hdrs, lastSet, sresp, sout>>

\* a step of the task of connection c
Handle(c) ==
    \/ RequestLine(c)
    \/ ReadHeaderLine(c)
    \/ ReadBody(c)
    \/ Route(c)
    \/ WriteResponse(c)

----------------------------------------------------------------------------
(* The inputs: what a client sends, and whether it then closes its side *)

Paths ==
    {<<"/">>,
     <<"/","e","c","h","o","/","a","b">>,
     <<"/","e","c","h","o","/">>,
     <<"/","u","s","e","r","-","a","g","e","n","t">>,
     <<"/","f","i","l","e","s","/","f">>,
     <<"/","n","o","p","e">>}

HeaderBlocks ==
    {<<>>,
     <<<<"U","s","e","r","-","A","g","e","n","t",":"," ","c">>>>,
     <<<<"u","s","e","r","-","a","g","e","n","t",":"," ","c">>>>,
     <<<<"A","c","c","e","p","t","-","E","n","c","o","d","i","n","g",":"," ","g","z","i","p">>>>,
     <<<<"a","c","c","e","p","t","-","e","n","c","o","d","i","n","g",":"," ","b","r",","," ","g","z","i","p">>>>,
     <<<<"A","c","c","e","p","t","-","E","n","c","o","d","i","n","g",":"," ","x","g","z","i","p">>>>,
     <<<<"A","c","c","e","p","t","-","E","n","c","o","d","i","n","g",":"," ","b","r">>>>,
     <<<<"B","a","d">>>>,
     <<<<"U","s","e","r","-","A","g","e","n","t",":"," ","c">>, <<"B","a","d">>, <<"A","c","c","e","p","t","-","E","n","c","o","d","i","n","g",":"," ","g","z","i","p">>>>,
     <<<<"U","s","e","r","-","A","g","e","n","t",":"," ","c">>, <<"A","c","c","e","p","t","-","E","n","c","o","d","i","n","g",":"," ","g","z","i","p">>>>}

Bodies ==
    {<<"a">>,
     <<"a","b">>,
     <<"a","\n","b">>,
     <<"a","\r","\n","b">>,
     <<"a","\n">>,
     <<"a","\r","\n">>,
     <<"\n">>,
     <<"\r","\n">>,
     <<"a","\n","\n","b">>,
     <<"<ff>">>,
     <<"a","b","\r","\n","\r","\n">>}

\* request lines that are malformed, each a whole stream
BadRequestLines ==
    {<<>>,
     <<"\r","\n">>,
     <<"G","E","T","\r","\n">>,
     <<"G","E","T"," ","/","\r","\n">>,
     <<"P","O","S","T"," ","/","f","i","l","e","s","/","f","\r","\n">>,
     <<"F","O","O"," ","/"," ","H","T","T","P","/","1",".","1","\r","\n">>,
     <<"F","O","O","\r","\n">>,
     <<"g","e","t"," ","/"," ","H","T","T","P","/","1",".","1","\r","\n">>}

\* streams that stop before the request is complete
Truncated ==
    {<<"G","E","T"," ","/"," ","H","T","T","P","/","1",".","1","\r","\n">>,
     <<"G","E","T"," ","/"," ","H","T","T","P","/","1",".","1","\r","\n","\n">>,
     <<"G","E","T"," ","/","u","s","e","r","-","a","g","e","n","t"," ","H","T","T","P","/","1",".","1","\r","\n","U","s","e","r","-","A","g","e","n","t",":"," ","c","\r","\n">>,
     <<"G","E","T"," ","/"," ","H","T","T","P","/","1",".","1","\r","\n","\n","\r","\n">>,
     <<"G","E","T"," ","/","u","s","e","r","-","a","g","e","n","t"," ","H","T","T","P","/","1",".","1","\r","\n","U","s","e","r","-","A","g","e","n","t",":"," ","c","\n","\r","\n">>,
     <<"P","O","S","T"," ","/","f","i","l","e","s","/","f"," ","H","T","T","P","/","1",".","1","\r","\n","C","o","n","t","e","n","t","-","L","e","n","g","t","h",":"," ","5","\r","\n","\r","\n","a","b">>,
     <<"G","E","T"," ","/"," ","H","T","T","P","/","1",".","1">>}

RECURSIVE Concat(_)
Concat(ss) == IF ss = <<>> THEN <<>> ELSE ss[1] \o Concat(Tail(ss))

\* the bytes of a request
Wire(method, path, header_block, body) ==
    method \o <<" ">> \o path \o <<" ">> \o HTTP11 \o CRLF
      \o Concat([i \in 1..Len(header_block) |-> header_block[i] \o CRLF])
      \o CRLF \o body

ContentLengthLine(body) ==
    <<"C","o","n","t","e","n","t","-","L","e","n","g","t","h",":"," ">> \o to_string(Len(body))

\* complete requests without a body
PlainRequests ==
    {[data |-> Wire(m, p, h, <<>>), eof |-> FALSE] :
        m \in {GET, POST}, p \in Paths, h \in HeaderBlocks}

\* uploads: Content-Length and that many bytes of body
UploadRequests ==
    {[data |-> Wire(POST, <<"/","f","i","l","e","s","/","f">>, <<ContentLengthLine(b)>>, b), eof |-> FALSE] :
        b \in Bodies}

\* streams that end (eof) or stall (no eof) before the request is complete
BrokenRequests ==
    {[data |-> d, eof |-> e] : d \in BadRequestLines \cup Truncated, e \in BOOLEAN}

Requests == PlainRequests \cup UploadRequests \cup BrokenRequests

\* ServerSpec: a valid request, a client that sends nothing, a request line
\* that panics the task, and one that fails it with an error
GoodRequest == [data |-> Wire(GET, ROOT, <<>>, <<>>), eof |-> FALSE]

StalledRequest == [data |-> <<>>, eof |-> FALSE]

ServerRequests ==
    {GoodRequest, StalledRequest,
     [data |-> <<"G","E","T"," ","/","\r","\n">>, eof |-> FALSE],
     [data |-> <<"F","O","O"," ","/"," ","H","T","T","P","/","1",".","1","\r","\n","\r","\n">>, eof |-> FALSE]}

----------------------------------------------------------------------------
(* Spec: one connection at a time through handle_connection *)

\* values of the variables a specification does not use
IdleConns == [c \in ConnIds |-> FreeConn]

NoSer == [kind |-> "none", order |-> <<>>, bytes |-> <<>>]

Init ==
    /\ conns = IdleConns
    /\ queue = <<>>
    /\ fs = EmptyMap
    /\ uploaded = EmptyMap
    /\ hdrs = EmptyMap
    /\ lastSet = None
    /\ sresp = Response_new
    /\ sout = NoSer

Next ==
    \E c \in {1} :
        \/ Accept(c, Requests)
        \/ Start(c)
        \/ Handle(c)
        \/ Drop(c)

Spec == Init /\ [][Next]_vars

----------------------------------------------------------------------------
(* Properties of handle_connection, checked under Spec *)

\* the router has built the response of connection k
Routed(k) == k.pc = "write" \/ (k.pc = "done" /\ k.outcome = "ok")

\* a header line that does not contain ": "
Malformed(l) == l # <<>> /\ Occurrences(l, SEP) = {}

\* the header block holds a malformed line before any empty line
HasMalformed(ls) ==
    \E i \in 1..Len(ls) : Malformed(ls[i]) /\ \A j \in 1..(i - 1) : ls[j] # <<>>

\* the request line has fewer than three tokens or a method other than GET, POST
BadFirstLine(data) ==
    LET parts == split_whitespace(read_line(data))
    IN  Len(parts) < 3 \/ parts[1] \notin {GET, POST}

\* C1: a request with a valid request line and a malformed header line is
\* still answered: the task ends Ok, a response is written, and every
\* well-formed header line is in the parsed map.
C1_MalformedHeaderNotFatal ==
    \A c \in ConnIds :
        LET k == conns[c]
        IN  (k.pc = "done" /\ ~BadFirstLine(k.data) /\ HasMalformed(k.header_lines))
            => /\ k.outcome = "ok"
               /\ k.written # <<>>
               /\ \A i \in 1..Len(k.header_lines) :
                    LET parts == split_once(k.header_lines[i], SEP)
                    IN  parts # None => to_lowercase(parts[1][1]) \in DOMAIN k.headers

\* the body is text that from_utf8_lossy leaves alone
IsText(b) == \A i \in 1..Len(b) : b[i] # "<ff>"

\* C2: after a successful POST /files/p of a text body b of N > 0 bytes the
\* file holds exactly b, and a later GET /files/p answers 200 with body b.
C2_UploadRoundTrip ==
    /\ \A f \in DOMAIN uploaded :
         (Len(uploaded[f]) > 0 /\ IsText(uploaded[f])) => fs[f] = uploaded[f]
    /\ \A c \in ConnIds :
         LET k == conns[c]
             f == SubSeq(k.path, 8, Len(k.path))
         IN  (/\ Routed(k) /\ k.method = "Get" /\ starts_with(k.path, FILES)
              /\ f \in DOMAIN uploaded
              /\ Len(uploaded[f]) > 0 /\ IsText(uploaded[f]))
             => k.response.status = "Ok" /\ k.response.body = uploaded[f]

\* C3: a malformed request line ends the task with an error returned to the
\* task boundary, and no response byte is written.
C3_BadRequestLineIsError ==
    \A c \in ConnIds :
        LET k == conns[c]
        IN  (k.pc = "done" /\ BadFirstLine(k.data))
            => k.outcome = "error" /\ k.written = <<>>

\* the lines the stream delivered after the request line
LinesReceived(data) ==
    LET n == Len(SplitInclusive(data, 1, <<>>)) IN IF n = 0 THEN 0 ELSE n - 1

\* C10 (resource part): the list of header lines never holds more entries
\* than lines were received after the request line.
C10_HeaderLinesBounded ==
    \A c \in ConnIds :
        LET k == conns[c]
        IN  k.pc # "free" => Len(k.header_lines) <= LinesReceived(k.data)

\* the bytes after the first blank line of a serialized response
AfterBlankLine(bytes) ==
    LET at == Occurrences(bytes, CRLF \o CRLF)
    IN  IF at = {} THEN <<>> ELSE SubSeq(bytes, Min(at) + 4, Len(bytes))

\* C5: in every response written, a content-length header equals the number
\* of bytes sent after the blank line, is on the wire with that value, and
\* is present whenever that number is not zero.
C5_ContentLength ==
    \A c \in ConnIds :
        LET k == conns[c]
            sent == AfterBlankLine(k.written)
            h == k.response.headers
        IN  k.written # <<>> =>
              /\ CONTENT_LENGTH \in DOMAIN h =>
                   /\ h[CONTENT_LENGTH] = to_string(Len(sent))
                   /\ contains(k.written,
                               CRLF \o CONTENT_LENGTH \o SEP \o to_string(Len(sent)) \o CRLF)
              /\ sent # <<>> => CONTENT_LENGTH \in DOMAIN h

\* C5 witness: a gzip response was written, its length differing from the text's
C5_Witness ==
    \E c \in ConnIds :
        /\ conns[c].written # <<>>
        /\ CONTENT_ENCODING \in DOMAIN conns[c].response.headers
        /\ Len(AfterBlankLine(conns[c].written)) # Len(conns[c].path) - 6

RECURSIVE SplitOn(_, _, _, _)
\* the pieces of s between occurrences of the character ch
SplitOn(s, ch, i, cur) ==
    IF i > Len(s) THEN <<cur>>
    ELSE IF s[i] = ch THEN <<cur>> \o SplitOn(s, ch, i + 1, <<>>)
    ELSE SplitOn(s, ch, i + 1, Append(cur, s[i]))

RECURSIVE TrimStart(_)
TrimStart(s) == IF s # <<>> /\ s[1] \in Whitespace THEN TrimStart(Tail(s)) ELSE s

\* the accept-encoding value, split on commas, has the token gzip
HasGzipToken(h) ==
    /\ ACCEPT_ENCODING \in DOMAIN h
    /\ LET tokens == SplitOn(h[ACCEPT_ENCODING], ",", 1, <<>>)
       IN  \E i \in 1..Len(tokens) : TrimStart(trim_end(tokens[i])) = GZIP

\* the accept-encoding value has gzip as a substring
HasGzipSubstring(h) ==
    /\ ACCEPT_ENCODING \in DOMAIN h
    /\ \E i \in 1..Len(h[ACCEPT_ENCODING]) :
         i + 3 <= Len(h[ACCEPT_ENCODING]) /\
         <<h[ACCEPT_ENCODING][i], h[ACCEPT_ENCODING][i + 1],
           h[ACCEPT_ENCODING][i + 2], h[ACCEPT_ENCODING][i + 3]>> = GZIP

\* the text an echo request names
EchoText(k) == SubSeq(k.path, 7, Len(k.path))

\* the response of an echo request that is not compressed
PlainEcho(k) ==
    [version |-> HTTP11, status |-> "Ok", body |-> EchoText(k),
     headers |-> (CONTENT_TYPE :> TEXT_PLAIN) @@
                 (CONTENT_LENGTH :> to_string(Len(EchoText(k))))]

\* the response of an echo request that is compressed
GzipEcho(k) ==
    [version |-> HTTP11, status |-> "Ok", body |-> Gzip(EchoText(k)),
     headers |-> (CONTENT_TYPE :> TEXT_PLAIN) @@
                 (CONTENT_ENCODING :> GZIP) @@
                 (CONTENT_LENGTH :> to_string(Len(Gzip(EchoText(k)))))]

\* C6 as claimed: the echo response is compressed only when the
\* accept-encoding value, split on commas, has the token gzip; otherwise it
\* is the identity response.
C6_GzipOnlyForToken ==
    \A c \in ConnIds :
        LET k == conns[c]
        IN  (Routed(k) /\ starts_with(k.path, ECHO)) =>
              k.response = IF HasGzipToken(k.headers) THEN GzipEcho(k) ELSE PlainEcho(k)

\* C6 as amended: the echo response is compressed exactly when the
\* accept-encoding value contains gzip as a substring; otherwise it is the
\* identity response without content-encoding.
C6_GzipForSubstring ==
    \A c \in ConnIds :
        LET k == conns[c]
        IN  (Routed(k) /\ starts_with(k.path, ECHO)) =>
              k.response = IF HasGzipSubstring(k.headers) THEN GzipEcho(k) ELSE PlainEcho(k)

\* C6 witness: an echo request naming only "xgzip" was answered compressed
C6_Witness ==
    \E c \in ConnIds :
        /\ Routed(conns[c]) /\ starts_with(conns[c].path, ECHO)
        /\ ~HasGzipToken(conns[c].headers)
        /\ CONTENT_ENCODING \in DOMAIN conns[c].response.headers

\* the response to a request under "/files/": what the file handler answers
FileAnswer(k) ==
    LET f == SubSeq(k.path, 8, Len(k.path))
        r == k.response
    IN  IF k.method = "Get"
        THEN IF f \in DOMAIN fs
             THEN /\ r.status = "Ok" /\ r.body = fs[f]
                  /\ r.headers[CONTENT_TYPE] = OCTET_STREAM
             ELSE r.status = "NotFound" /\ r.body = <<>>
        ELSE r.status \in {"Created", "InternalServerError"} /\ r.body = <<>>

\* the text of a "/user-agent" answer
UserAgentText(k) ==
    IF USER_AGENT \in DOMAIN k.headers THEN k.headers[USER_AGENT] ELSE NONE

\* the rules of the router other than echo, first match first
OtherRules(k) ==
    LET r == k.response
    IN  /\ k.path = ROOT =>
              r.status = "Ok" /\ r.body = <<>> /\ CONTENT_TYPE \notin DOMAIN r.headers
        /\ k.path = USER_AGENT_PATH =>
              /\ r.status = "Ok" /\ r.body = UserAgentText(k)
              /\ r.headers[CONTENT_TYPE] = TEXT_PLAIN
        /\ starts_with(k.path, FILES) => FileAnswer(k)
        /\ (/\ k.path # ROOT /\ ~starts_with(k.path, ECHO)
            /\ k.path # USER_AGENT_PATH /\ ~starts_with(k.path, FILES))
              => r.status = "NotFound" /\ r.body = <<>>

\* C7 as claimed: the router applies the first matching rule, and an echo
\* request gets status 200 and a text/plain body equal to the path after
\* "/echo/".
C7_RouterEchoVerbatim ==
    \A c \in ConnIds :
        LET k == conns[c]
        IN  Routed(k) =>
              /\ OtherRules(k)
              /\ starts_with(k.path, ECHO) =>
                   /\ k.response.status = "Ok"
                   /\ k.response.headers[CONTENT_TYPE] = TEXT_PLAIN
                   /\ k.response.body = EchoText(k)

\* C7 as amended: the same, but the body of an echo answer is the path after
\* "/echo/" only when the request does not negotiate gzip, and the gzip
\* encoding of that text when it does.
C7_RouterEchoNegotiated ==
    \A c \in ConnIds :
        LET k == conns[c]
        IN  Routed(k) =>
              /\ OtherRules(k)
              /\ starts_with(k.path, ECHO) =>
                   /\ k.response.status = "Ok"
                   /\ k.response.headers[CONTENT_TYPE] = TEXT_PLAIN
                   /\ k.response.body =
                        IF HasGzipSubstring(k.headers)
                        THEN Gzip(EchoText(k)) ELSE EchoText(k)

\* C7 witness: an echo request that negotiated gzip was answered
C7_Witness ==
    \E c \in ConnIds :
        /\ conns[c].pc = "done" /\ conns[c].outcome = "ok"
        /\ starts_with(conns[c].path, ECHO)
        /\ EchoText(conns[c]) # <<>>
        /\ HasGzipSubstring(conns[c].headers)

----------------------------------------------------------------------------
(* ServerSpec: the accept loop, the spawned tasks and the worker threads *)

ServerNext ==
    \E c \in ConnIds :
        \/ Accept(c, ServerRequests)
        \/ Start(c)
        \/ Handle(c)
        \/ Drop(c)

ServerSpec == Init /\ [][ServerNext]_vars

\* The runtime polls a queued task once a worker thread is idle, and a task
\* that can take a step takes it.
FairServerSpec ==
    /\ ServerSpec
    /\ \A c \in ConnIds : WF_vars(Start(c)) /\ WF_vars(Handle(c))

\* C4 (progress part): an accepted connection that has sent a complete valid
\* request eventually receives its response, whatever the other connections
\* do.
C4_ValidRequestAnswered ==
    \A c \in ConnIds :
        (conns[c].pc = "queued" /\ conns[c].data = GoodRequest.data)
            ~> (conns[c].outcome = "ok" /\ conns[c].written # <<>>)

----------------------------------------------------------------------------
(* HeaderSpec: Headers::set, Headers::get and Headers::from *)

HeaderNames ==
    {<<"H","o","s","t">>, <<"h","o","s","t">>, <<"H","O","S","T">>, <<"x">>, <<"X">>}

HeaderValues == {<<"1">>, <<"2">>}

\* header.set(name, value)
HSet ==
    \E name \in HeaderNames, value \in HeaderValues :
        /\ hdrs' = Headers_set(hdrs, name, value)
        /\ lastSet' = Some(<<name, value>>)
        /\ UNCHANGED <<conns, queue, fs, uploaded, sresp, sout>>

\* Headers::from(lines) of a block of one or two wire lines "name: value"
HFrom ==
    \E ls \in UNION {[1..n -> HeaderNames \X HeaderValues] : n \in 1..2} :
        LET wire == [i \in 1..Len(ls) |-> ls[i][1] \o SEP \o ls[i][2]]
        IN  /\ Headers_from(wire).ok
            /\ hdrs' = Headers_from(wire).map
            /\ lastSet' = Some(ls[Len(ls)])
            /\ UNCHANGED <<conns, queue, fs, uploaded, sresp, sout>>

HeaderNext == HSet \/ HFrom

HeaderSpec == Init /\ [][HeaderNext]_vars

\* C8: after set(n, v), or after parsing the line "n: v", get(n') is v for
\* every case variant n' of n, and no two names in the map differ only in
\* case.
C8_CaseInsensitive ==
    /\ lastSet # None =>
         \A n \in HeaderNames :
             to_lowercase(n) = to_lowercase(lastSet[1][1])
                 => Headers_get(hdrs, n) = Some(lastSet[1][2])
    /\ \A a, b \in DOMAIN hdrs : to_lowercase(a) = to_lowercase(b) => a = b

----------------------------------------------------------------------------
(* SerSpec: Response::to_bytes (structs.rs), Display for Response (main.rs) *)

\* bodies a String can hold
TextBodies == {b \in Bodies : IsText(b)} \cup {<<>>}

SerBodies == Bodies \cup {<<>>, Gzip(<<"a">>)}

SerHeaders(body) ==
    {EmptyMap,
     set_content_length(set_content_type(EmptyMap, TEXT_PLAIN), Len(body)),
     set_content_length(set_content_encoding(EmptyMap, GZIP), Len(body))}

Responses ==
    {[version |-> HTTP11, status |-> s, headers |-> h, body |-> b] :
        s \in {"Ok", "NotFound", "Created", "InternalServerError"},
        b \in SerBodies, h \in UNION {SerHeaders(x) : x \in SerBodies}}

\* a Response is built
SerBuild ==
    /\ sresp' \in {r \in Responses : r.headers \in SerHeaders(r.body)}
    /\ sout' = NoSer
    /\ UNCHANGED <<conns, queue, fs, uploaded, hdrs, lastSet>>

\* structs.rs: response.to_bytes()
SerToBytes ==
    /\ sout.kind = "none"
    /\ \E order \in Orders(DOMAIN sresp.headers) :
         sout' = [kind |-> "to_bytes", order |-> order, bytes |-> to_bytes(sresp, order)]
    /\ UNCHANGED <<conns, queue, fs, uploaded, hdrs, lastSet, sresp>>

\* main.rs: response.to_string(), for the statuses and bodies its types hold
SerDisplay ==
    /\ sout.kind = "none"
    /\ sresp.status \in {"Ok", "NotFound"}
    /\ sresp.body \in TextBodies
    /\ \E order \in Orders(DOMAIN sresp.headers) :
         sout' = [kind |-> "fmt", order |-> order, bytes |-> Response_fmt(sresp, order)]
    /\ UNCHANGED <<conns, queue, fs, uploaded, hdrs, lastSet, sresp>>

SerNext == SerBuild \/ SerToBytes \/ SerDisplay

SerSpec == Init /\ [][SerNext]_vars

\* the status line and header lines of a response, in the order emitted
ExpectedHead(r, order) ==
    r.version \o <<" ">> \o StatusText(r.status) \o CRLF
      \o Concat([i \in 1..Len(order) |-> order[i] \o SEP \o r.headers[order[i]] \o CRLF])
      \o CRLF

\* C9: the serialized bytes are the status line, the header lines, a blank
\* line, and then exactly the bytes of the body.
C9_SerializedBodyVerbatim ==
    sout.kind # "none" =>
        /\ Len(sout.bytes) = Len(ExpectedHead(sresp, sout.order)) + Len(sresp.body)
        /\ sout.bytes = ExpectedHead(sresp, sout.order) \o sresp.body

============================================================================
